---- MODULE Spec2Model ----
(***************************************************************************)
(* hayabusa-flow: case assembly and OpenFOAM pipeline execution.           *)
(*                                                                         *)
(*   src/main.py                   STLFileSelector, CaseSetup,             *)
(*                                 OpenFOAMRunner, ResultsExtractor, main  *)
(*   src/my-previous-runner.py     OpenFOAMParallelRunner                  *)
(*   src/my-previous-setupcase.py  setup_case, update_decompose_par_dict   *)
(*                                                                         *)
(* Text is modelled as sequences: a file name is a sequence of characters, *)
(* a configuration file is a sequence of whitespace-separated tokens.      *)
(***************************************************************************)
EXTENDS Integers, Sequences, FiniteSets, TLC

VARIABLES
    program,        \* which script runs: "main", "runner", "setupcase", or a direct call
    args,           \* main.py: the parsed command line
    pc,             \* position of the script's top-level code
    exitStatus,     \* "running", "exit0", "exit1" or "raised" (uncaught exception)
    printed,        \* the warnings, errors and final reports printed so far
    \* ---- the external tools
    runnerClass,    \* class of the pipeline executor in use
    rpc,            \* position of the pipeline executor
    stepIdx,        \* index into its step sequence
    dictIdx,        \* run_all_surfaceFeatureExtract: index of the next dictionary
    invoked,        \* the external command lines launched so far, in order
    toolExit,       \* exit code of each external command line launched so far
    inFlight,       \* the external processes started and not yet joined
    runResult,      \* what the executor returned: "none", "True" or "False"
    \* ---- STLFileSelector._find_stl_files_in_folder
    fpc,            \* its position: "idle", "loop", "input", "returned", "raised"
    stl_listing,    \* its local stl_files: the folder's *.stl names as globbed
    compIdx,        \* index of the component at hand in stl_components
    matching_files, \* the candidates of the component at hand
    found_files,    \* component -> file name, as bound so far
    choice,         \* what input() yielded last at the selection prompt
    retries,        \* answers refused so far in this call
    findResult,     \* the value it returned (once fpc = "returned")
    \* ---- the file system
    fs,             \* [base, case]: the template tree and the destination tree
    \* ---- CaseSetup.setup_case / my-previous-setupcase.setup_case
    stl_files,      \* the mapping handed to setup_case
    spc,            \* its position
    placeIdx,       \* index of the next component to place
    wheel_centers,  \* component -> centroid, as computed so far
    content,        \* _update_wheel_centers: the text of the velocity file in memory
    wheelIdx,       \* _update_wheel_centers: index of the next component to patch
    setupResult,    \* what setup_case returned: "none", "True" or "False"
    \* ---- ResultsExtractor and the end of main
    selections,     \* folders examined so far by select_files_cli
    results,        \* what extract_latest_cd returned, once it was called
    \* ---- a caller that runs CaseSetup.setup_case twice in a row
    setupCalls,     \* calls of setup_case it has made so far
    afterFirst,     \* the configuration files as its first call left them
    \* ---- a caller that runs one executor and then the other
    firstRun        \* what the executor run first launched and returned

findVars ==
    <<fpc, stl_listing, compIdx, matching_files, found_files, choice, retries, findResult>>
pipeVars == <<runnerClass, rpc, stepIdx, dictIdx, invoked, toolExit, inFlight, runResult>>
mainVars == <<program, args, pc, exitStatus, printed>>
setupVars == <<stl_files, spc, placeIdx, wheel_centers, content, wheelIdx, setupResult>>
endVars == <<selections, results>>
callVars == <<setupCalls, afterFirst, firstRun>>
vars == <<mainVars, pipeVars, findVars, fs, setupVars, endVars, callVars>>

-----------------------------------------------------------------------------
(* Bounds *)

\* Exit codes an external tool may end with are 0..MaxExitCode.
MaxExitCode == 2

ExitCodes == 0..MaxExitCode

\* Processor counts given on the command line (--n-proc, default 6).
DefaultNProc == 6
NProcs == {DefaultNProc, 8}

\* --case-dir as main.py defaults it, './case', and the case directory of
\* my-previous-runner.py's script, '../case': relative paths, split at "/".
CASE_DIR == <<".", "case">>
PreviousCase == <<"..", "case">>

\* str(Path(path)) of a relative path: "." segments and empty segments (a
\* doubled or trailing "/") are dropped, ".." is kept; nothing left is ".".
PathStr(path) ==
    LET kept == SelectSeq(path, LAMBDA seg : seg # "." /\ seg # "")
    IN  IF kept = << >> THEN <<".">> ELSE kept

\* A folder holds at most MaxFiles files.
MaxFiles == 5

\* Answers the selector refuses (out of range, not a number) per call.
MaxRetries == 1

-----------------------------------------------------------------------------
(* STLFileSelector *)

stl_components == <<"FL", "FR", "RL", "RR", "mainBody">>

\* The characters of a component's name.
Chars(component) ==
    CASE component = "FL" -> <<"F", "L">>
      [] component = "FR" -> <<"F", "R">>
      [] component = "RL" -> <<"R", "L">>
      [] component = "RR" -> <<"R", "R">>
      [] component = "mainBody" -> <<"m", "a", "i", "n", "B", "o", "d", "y">>

DotStl == <<".", "s", "t", "l">>

\* File names a folder may hold.
FL_stl == Chars("FL") \o DotStl
FR_stl == Chars("FR") \o DotStl
RL_stl == Chars("RL") \o DotStl
RR_stl == Chars("RR") \o DotStl
mainBody_stl == Chars("mainBody") \o DotStl
fl2_stl == <<"f", "l", "2">> \o DotStl
FRL_stl == <<"F", "R", "L">> \o DotStl
FL_txt == <<"F", "L", ".", "t", "x", "t">>

FileNames == {FL_stl, FR_stl, RL_stl, RR_stl, mainBody_stl, fl2_stl, FRL_stl, FL_txt}

UpperCase == <<"F", "L", "R", "B">>
LowerCase == <<"f", "l", "r", "b">>

\* str.lower(), character by character.
ToLower(ch) ==
    IF \E i \in 1..Len(UpperCase) : UpperCase[i] = ch
    THEN LowerCase[CHOOSE i \in 1..Len(UpperCase) : UpperCase[i] = ch]
    ELSE ch

Lower(s) == [i \in 1..Len(s) |-> ToLower(s[i])]

\* a in b
IsSubstring(a, b) ==
    \E i \in 0..(Len(b) - Len(a)) : SubSeq(b, i + 1, i + Len(a)) = a

StartsWith(b, a) == Len(a) <= Len(b) /\ SubSeq(b, 1, Len(a)) = a

EndsWith(b, a) == Len(a) <= Len(b) /\ SubSeq(b, Len(b) - Len(a) + 1, Len(b)) = a

\* folder.glob("*.stl")
GlobStl(names) == SelectSeq(names, LAMBDA f : EndsWith(f, DotStl))

\* The naming patterns tried on the file name as it is spelled.
MatchesAsSpelled(component, name) ==
    LET component_lower == Lower(Chars(component))
    IN  \/ IsSubstring(component_lower, name)
        \/ StartsWith(name, component_lower)
        \/ EndsWith(name, component_lower \o DotStl)

\* The naming patterns tried for one file and one component.
Matches(component, name) ==
    LET filename == Lower(name)
        component_lower == Lower(Chars(component))
    IN  \/ IsSubstring(component_lower, filename)
        \/ StartsWith(filename, component_lower)
        \/ EndsWith(filename, component_lower \o DotStl)

\* The outcome of the patterns for every component and every file name.
MatchTable ==
    [ component \in { stl_components[i] : i \in 1..Len(stl_components) },
      name \in FileNames |-> Matches(component, name) ]

MatchingFiles(component, files) ==
    SelectSeq(files, LAMBDA f : MatchTable[component, f])

\* The sequences without repetition over S of length at most n: the listings
\* of a folder, in whatever order the file system yields them.
RECURSIVE Listings(_, _)
Listings(S, n) ==
    IF n = 0 \/ S = {}
    THEN { << >> }
    ELSE { << >> } \cup
         UNION { { <<f>> \o l : l \in Listings(S \ {f}, n - 1) } : f \in S }

\* What input() may yield at the selection prompt: end of input, text that is
\* no number, or a number.
Answers(n) ==
    { [kind |-> "eof"], [kind |-> "text"] } \cup
    { [kind |-> "int", n |-> k] : k \in 0..(n + 1) }

\* A loop that leaves out the last component.
LoopEndsEarly(i) == i >= Len(stl_components)

\* "for component in self.stl_components" is through.
LoopEnds(i) == i > Len(stl_components)

\* A selector that returns what it has bound so far.
ReturnsFound(found) == found

\* "return {}" at a component without a file.
ReturnedWhenMissing(found) == << >>

\* The loop over stl_components from the i-th component on, as far as it runs
\* without input: to the prompt for an ambiguous component, to "return {}"
\* at a component without a file, or to "return found_files".
RECURSIVE LoopFrom(_, _, _)
LoopFrom(files, i, found) ==
    IF LoopEnds(i)
    THEN [at |-> "returned", compIdx |-> i, found |-> found, result |-> found,
          matching |-> << >>, lines |-> << >>]
    ELSE LET component == stl_components[i]
             m == MatchingFiles(component, files)
         IN  IF Len(m) = 1
             THEN LoopFrom(files, i + 1, (component :> m[1]) @@ found)
             ELSE IF Len(m) > 1
             THEN [at |-> "input", compIdx |-> i, found |-> found, result |-> << >>,
                   matching |-> m,
                   lines |-> << [msg |-> "Multiple files found for",
                                 component |-> component] >>]
             ELSE [at |-> "returned", compIdx |-> i, found |-> found,
                   result |-> ReturnedWhenMissing(found),
                   matching |-> << >>,
                   lines |-> << [msg |-> "No file found for",
                                 component |-> component] >>]

\* The selector's state once the loop stopped.
LoopStops(stop) ==
    /\ fpc' = stop.at
    /\ compIdx' = stop.compIdx
    /\ matching_files' = stop.matching
    /\ found_files' = stop.found
    /\ findResult' = stop.result
    /\ printed' = printed \o stop.lines

\* A call of _find_stl_files_in_folder on a folder with the given entries, up
\* to its first prompt or its return.
FindStart(entries) ==
    /\ stl_listing' = GlobStl(entries)
    /\ choice' = [kind |-> "none"]
    /\ retries' = 0
    /\ LoopStops(LoopFrom(GlobStl(entries), 1, << >>))

\* A range test without its lower bound.
InRangeBelow(idx, n) == idx < n

\* if 0 <= idx < len(matching_files)
InRange(idx, n) == 0 <= idx /\ idx < n

\* list[idx]: a negative index counts from the end of the list.
ListItem(list, idx) == IF idx < 0 THEN list[Len(list) + idx + 1] ELSE list[idx + 1]

\* The selection prompt: input(), int(), the range test; after a choice in
\* range the loop goes on.  A refused answer prints a line and asks again.
SelectFile ==
    /\ fpc = "input"
    /\ \E answer \in Answers(Len(matching_files)) :
          LET component == stl_components[compIdx]
          IN  /\ choice' = answer
              /\ CASE answer.kind = "eof" ->
                      \* EOFError is no ValueError: it leaves the function
                      /\ fpc' = "raised"
                      /\ UNCHANGED <<found_files, compIdx, matching_files, findResult,
                                     retries, printed>>
                [] answer.kind = "text" ->
                      \* "Please enter a valid number."
                      /\ retries < MaxRetries
                      /\ retries' = retries + 1
                      /\ UNCHANGED <<fpc, found_files, compIdx, matching_files, findResult,
                                     printed>>
                [] answer.kind = "int" /\ InRange(answer.n - 1, Len(matching_files)) ->
                      /\ LoopStops(LoopFrom(stl_listing, compIdx + 1,
                             (component :> ListItem(matching_files, answer.n - 1))
                                 @@ found_files))
                      /\ UNCHANGED retries
                [] OTHER ->
                      \* "Invalid choice. Please try again."
                      /\ retries < MaxRetries
                      /\ retries' = retries + 1
                      /\ UNCHANGED <<fpc, found_files, compIdx, matching_files, findResult,
                                     printed>>
    /\ UNCHANGED <<stl_listing, program, args, pc, exitStatus, pipeVars,
                   fs, setupVars, endVars, callVars>>

\* A direct call of _find_stl_files_in_folder on any folder.
FindStlFilesInFolder ==
    /\ program = "_find_stl_files_in_folder"
    /\ pc = "start"
    /\ \E entries \in Listings(FileNames, MaxFiles) : FindStart(entries)
    /\ pc' = "called"
    /\ UNCHANGED <<program, args, exitStatus, pipeVars, fs, setupVars, endVars, callVars>>

InitFind ==
    /\ fpc = "idle"
    /\ stl_listing = << >>
    /\ compIdx = 0
    /\ matching_files = << >>
    /\ found_files = << >>
    /\ choice = [kind |-> "none"]
    /\ retries = 0
    /\ findResult = << >>

-----------------------------------------------------------------------------
(* The text of the configuration files, as tokens *)

\* A word; a number followed by ";", after `gap` characters of white space; a
\* vector "(x y z);" written with the given numbers of decimal digits, its
\* coordinates in units of 10^-digits.
W(s) == [k |-> "w", w |-> s]
Spaced(gap, n) == [k |-> "int;", gap |-> gap, n |-> n]
Num(n) == Spaced(1, n)
Vec(digits, v) == [k |-> "vec", digits |-> digits, v |-> v]

\* The template's placeholder origin "(0 0 0);".
Placeholder == Vec(<<0, 0, 0>>, <<0, 0, 0>>)

\* Centroids are kept in units of 10^-CentroidDigits.
CentroidDigits == 9

RECURSIVE Pow10(_)
Pow10(n) == IF n = 0 THEN 1 ELSE 10 * Pow10(n - 1)

\* f"{x:.<d>f}": x rounded to d decimal digits (ties to the even digit), as a
\* count of units of 10^-d.
FormatFixed(x, d) ==
    LET q == Pow10(CentroidDigits - d)
        lo == x \div q
        r == x - lo * q
    IN  IF 2 * r < q THEN lo
        ELSE IF 2 * r > q THEN lo + 1
        ELSE IF lo % 2 = 0 THEN lo ELSE lo + 1

\* origin_str = f"({centroid[0]:.8f} {centroid[1]:.6f} {centroid[2]:.6f})"
OriginStr(centroid) ==
    Vec(<<8, 6, 6>>,
        <<FormatFixed(centroid[1], 8), FormatFixed(centroid[2], 6),
          FormatFixed(centroid[3], 6)>>)

\* The pattern's head "\s+X\s*\{" at token i: the name, after white space,
\* then the opening brace.
PatternHeadAt(c, component, i) ==
    /\ i > 1
    /\ i + 1 <= Len(c)
    /\ c[i] = W(component)
    /\ c[i + 1] = W("{")

\* "type\s+rotatingWallVelocity;\s*origin\s+\([^)]+\)(;" at token j.
MarkerAt(c, j) ==
    /\ j >= 1
    /\ j + 3 <= Len(c)
    /\ c[j] = W("type")
    /\ c[j + 1] = W("rotatingWallVelocity;")
    /\ c[j + 2] = W("origin")
    /\ c[j + 3].k = "vec"

Min(S) == CHOOSE x \in S : \A y \in S : x <= y

\* The markers a match that starts at token i may use: "[\s\S]*?" runs over
\* anything, closing braces and other blocks included, and the tail
\* "[\s\S]*?\}" needs a closing brace somewhere after the vector.
MarkersFrom(c, i) ==
    { j \in (i + 2)..Len(c) :
        /\ MarkerAt(c, j)
        /\ \E k \in (j + 4)..Len(c) : c[k] = W("}") }

\* The starts of a match at or after token `from`.
MatchStarts(c, component, from) ==
    { i \in from..Len(c) :
        PatternHeadAt(c, component, i) /\ MarkersFrom(c, i) # {} }

\* re.sub(pattern, replacement, content): each match, leftmost first and not
\* overlapping, has the vector after its (lazily found) marker replaced.
RECURSIVE ReSubOriginFrom(_, _, _, _)
ReSubOriginFrom(c, component, origin, from) ==
    IF MatchStarts(c, component, from) = {}
    THEN c
    ELSE LET i == Min(MatchStarts(c, component, from))
             j == Min(MarkersFrom(c, i))
             k == Min({ e \in (j + 4)..Len(c) : c[e] = W("}") })
         IN  ReSubOriginFrom([c EXCEPT ![j + 3] = origin], component, origin, k + 1)

ReSubOrigin(c, component, origin) == ReSubOriginFrom(c, component, origin, 1)

\* A substitution whose replacement lacks the closing ";".
ReSubSubdomainsNoSemicolon(c, n_proc) ==
    [ i \in 1..Len(c) |->
        IF i > 1 /\ c[i - 1] = W("numberOfSubdomains") /\ c[i].k = "int;"
        THEN [k |-> "int", gap |-> 1, n |-> n_proc]
        ELSE c[i] ]

\* re.sub(r'numberOfSubdomains\s+\d+;', f'numberOfSubdomains {n_proc};', content)
ReSubSubdomains(c, n_proc) ==
    [ i \in 1..Len(c) |->
        IF i > 1 /\ c[i - 1] = W("numberOfSubdomains") /\ c[i].k = "int;"
        THEN Num(n_proc)
        ELSE c[i] ]

\* Blocks of a velocity file.
RotatingBlock(name) ==
    << W(name), W("{"), W("type"), W("rotatingWallVelocity;"),
       W("origin"), Placeholder, W("}") >>
FixedBlock(name) ==
    << W(name), W("{"), W("type"), W("fixedValue;"), W("}") >>
AxisFirstBlock(name) ==
    << W(name), W("{"), W("type"), W("rotatingWallVelocity;"), W("axis"),
       Vec(<<0, 0, 0>>, <<0, 1, 0>>), W("origin"), Placeholder, W("}") >>

BlockOf(kind, name) ==
    CASE kind = "rotating" -> RotatingBlock(name)
      [] kind = "fixed" -> FixedBlock(name)
      [] kind = "axisFirst" -> AxisFirstBlock(name)

RECURSIVE Flatten(_)
Flatten(ss) == IF ss = << >> THEN << >> ELSE Head(ss) \o Flatten(Tail(ss))

\* A velocity file: boundaryField { <blocks> }
VelocityFile(blocks) ==
    << W("boundaryField"), W("{") >>
    \o Flatten([i \in 1..Len(blocks) |-> BlockOf(blocks[i][1], blocks[i][2])])
    \o << W("}") >>

\* A decomposition dictionary.
DecomposeParDict(n) ==
    << W("numberOfSubdomains"), Num(n), W("method"), W("scotch;") >>

-----------------------------------------------------------------------------
(* The file system *)

wheels == <<"FL", "FR", "RL", "RR">>

U_FILE == <<"0", "U">>
DECOMPOSE_FILE == <<"system", "decomposeParDict">>
TRI_SURFACE_DIR == <<"constant", "triSurface">>
COEFFICIENT_FILE == <<"postProcessing", "forceCoeffs1", "0", "coefficient.dat">>
RESULTS_FILE == <<"simulation_results.txt">>
\* A destination path that leaves out the triSurface directory.
DestPathInCaseDir(component) == <<component \o ".stl">>

\* dest_path = tri_surface_dir / f"{component}.stl"
DestPath(component) == TRI_SURFACE_DIR \o <<component \o ".stl">>

Ancestors(path) == { SubSeq(path, 1, n) : n \in 1..(Len(path) - 1) }

\* A tree: whether it exists, its files (path -> content), its directories.
NoTree == [exists |-> FALSE, files |-> << >>, dirs |-> {}]
Tree(files) ==
    [exists |-> TRUE, files |-> files,
     dirs |-> UNION { Ancestors(path) : path \in DOMAIN files }]

Restrict(f, S) == [x \in S |-> f[x]]

\* The content of an STL file of the folder.
StlContent(name) == << [k |-> "mesh", of |-> name] >>

\* What trimesh.load(file_path) and mesh.centroid make of it: a centroid, in
\* units of 10^-9, or an exception (ok = FALSE).

MeshLoad(name) ==
    CASE name = FL_stl ->
            [ok |-> TRUE, centroid |-> <<1234567894, 1345678400, -500000000>>]
      [] name = FR_stl ->
            [ok |-> TRUE, centroid |-> <<1234567896, -1345678400, -500000000>>]
      [] name = RL_stl ->
            [ok |-> TRUE, centroid |-> <<-1500000005, 1345678500, 0>>]
      [] name = RR_stl ->
            [ok |-> TRUE, centroid |-> <<-1500000015, -1345677500, 1>>]
      [] name = FRL_stl ->
            [ok |-> TRUE, centroid |-> <<5, 15, -999999999>>]
      [] name = mainBody_stl ->
            [ok |-> TRUE, centroid |-> <<0, 0, 0>>]
      [] OTHER -> [ok |-> FALSE]

\* Templates.
TemplateVelocity ==
    VelocityFile(<< <<"rotating", "FL">>, <<"rotating", "FR">>, <<"rotating", "RL">>,
                    <<"rotating", "RR">>, <<"fixed", "mainBody">> >>)
TemplateVelocityNoFL ==
    VelocityFile(<< <<"fixed", "FL">>, <<"rotating", "FR">>, <<"fixed", "mainBody">> >>)

TemplateDict == DecomposeParDict(4)

\* The same dictionary with the number aligned by two blanks.
TemplateDictWide ==
    << W("numberOfSubdomains"), Spaced(2, 4), W("method"), W("scotch;") >>

BaseFull ==
    Tree((U_FILE :> TemplateVelocity) @@
         (DECOMPOSE_FILE :> TemplateDict))
BaseNoFL ==
    Tree((U_FILE :> TemplateVelocityNoFL) @@
         (DECOMPOSE_FILE :> TemplateDictWide))
BaseBare == Tree(<<"README">> :> << W("template") >>)

Templates == {NoTree, BaseFull, BaseNoFL, BaseBare}

\* A destination left by an earlier run.
StaleCase ==
    Tree((U_FILE :> VelocityFile(<< <<"fixed", "FR">> >>)) @@
         (<<"processor0", "U">> :> << W("stale") >>) @@
         (DestPath("old") :> StlContent(fl2_stl)))

PriorCases == {NoTree, StaleCase}

-----------------------------------------------------------------------------
(* CaseSetup.setup_case and my-previous-setupcase.setup_case *)

\* stl_files.items(): the bound components, in the order they were bound.
Items(mapping) == SelectSeq(stl_components, LAMBDA c : c \in DOMAIN mapping)

\* What an interrupted rmtree / copytree may leave behind.
PartialRemovals(tree) ==
    { [tree EXCEPT !.files = Restrict(tree.files, S)] : S \in SUBSET DOMAIN tree.files }
PartialCopies(tree) ==
    {NoTree} \cup
    { Tree(Restrict(tree.files, S)) : S \in (SUBSET DOMAIN tree.files) \ {DOMAIN tree.files} }

WithFile(tree, path, text) ==
    [tree EXCEPT !.files = (path :> text) @@ tree.files,
                 !.dirs = tree.dirs \cup Ancestors(path)]

\* The next statement of setup_case is reached.
SetupGoes(next, newCase, lines) ==
    /\ fs' = [fs EXCEPT !.case = newCase]
    /\ spc' = next
    /\ printed' = printed \o lines
    /\ UNCHANGED <<setupResult, exitStatus, pc>>

\* An exception leaves setup_case: CaseSetup.setup_case catches it and returns
\* False; the earlier setup_case has no handler and the script dies.
SetupRaises(newCase) ==
    /\ fs' = [fs EXCEPT !.case = newCase]
    /\ IF program = "setupcase"
       THEN /\ spc' = "raised"
            /\ exitStatus' = "raised"
            /\ pc' = "done"
            /\ UNCHANGED <<setupResult, printed>>
       ELSE /\ spc' = "returned"
            /\ setupResult' = "False"
            /\ printed' = Append(printed, [msg |-> "Error setting up case"])
            /\ UNCHANGED <<exitStatus, pc>>

\* CaseSetup says that it removes the destination; the earlier setup_case is silent.
RemovingLine ==
    IF program = "setupcase" THEN << >> ELSE << [msg |-> "Removing existing case"] >>

\* if case_dir.exists(): shutil.rmtree(case_dir)
RemoveExisting ==
    /\ spc = "rmtree"
    /\ IF fs.case.exists
       THEN \/ SetupGoes("copytree", NoTree, RemovingLine)
            \/ \E left \in PartialRemovals(fs.case) : SetupRaises(left)
       ELSE SetupGoes("copytree", fs.case, << >>)
    /\ UNCHANGED <<program, args, stl_files, placeIdx, wheel_centers, content, wheelIdx,
                   pipeVars, findVars, endVars, callVars>>

\* After the template was copied: CaseSetup goes on to place the files, the
\* earlier setup_case to its "if n_proc".
AfterCopy == IF program = "setupcase" THEN "decompose" ELSE "mkdir"

\* shutil.copytree(base_dir, case_dir)
CopyBase ==
    /\ spc = "copytree"
    /\ \/ /\ fs.base.exists
          /\ ~fs.case.exists
          /\ SetupGoes(AfterCopy, fs.base, << >>)
       \/ /\ fs.base.exists
          /\ ~fs.case.exists
          /\ \E part \in PartialCopies(fs.base) : SetupRaises(part)
       \/ /\ ~fs.base.exists \/ fs.case.exists
          /\ SetupRaises(fs.case)
    /\ UNCHANGED <<program, args, stl_files, placeIdx, wheel_centers, content, wheelIdx,
                   pipeVars, findVars, endVars, callVars>>

\* tri_surface_dir.mkdir(parents=True, exist_ok=True); wheel_centers = {}
MakeTriSurfaceDir ==
    /\ spc = "mkdir"
    /\ \/ /\ SetupGoes("place",
                [fs.case EXCEPT !.dirs = @ \cup {TRI_SURFACE_DIR} \cup Ancestors(TRI_SURFACE_DIR)],
                << >>)
          /\ placeIdx' = 1
          /\ wheel_centers' = << >>
       \/ /\ SetupRaises(fs.case)
          /\ UNCHANGED <<placeIdx, wheel_centers>>
    /\ UNCHANGED <<program, args, stl_files, content, wheelIdx, pipeVars, findVars, endVars, callVars>>

\* Where setup_case goes after the loop over stl_files.items().
AfterPlacing(centers) == IF centers # << >> THEN "wheels" ELSE "decompose"

\* A test that takes only the front wheels for movable parts.
IsFrontWheel(component) == component \in {"FL", "FR"}

\* if component in ["FL", "FR", "RL", "RR"]
IsWheel(component) == \E i \in 1..Len(wheels) : wheels[i] = component

\* One pass of the loop over stl_files.items(): copy2, then the centroid of a wheel.
PlaceComponent ==
    /\ spc = "place"
    /\ IF placeIdx > Len(Items(stl_files))
       THEN /\ SetupGoes(AfterPlacing(wheel_centers), fs.case, << >>)
            /\ UNCHANGED <<placeIdx, wheel_centers>>
       ELSE LET component == Items(stl_files)[placeIdx]
                file_path == stl_files[component]
                mesh == MeshLoad(file_path)
                isWheel == IsWheel(component)
                centers == IF isWheel /\ mesh.ok
                           THEN (component :> mesh.centroid) @@ wheel_centers
                           ELSE wheel_centers
                last == placeIdx = Len(Items(stl_files))
            IN  \/ /\ SetupGoes(IF last THEN AfterPlacing(centers) ELSE "place",
                                WithFile(fs.case, DestPath(component), StlContent(file_path)),
                                IF isWheel /\ ~mesh.ok
                                THEN << [msg |-> "Warning: Could not calculate centroid for",
                                         component |-> component] >>
                                ELSE << >>)
                   /\ placeIdx' = placeIdx + 1
                   /\ wheel_centers' = centers
                \/ /\ SetupRaises(fs.case)
                   /\ UNCHANGED <<placeIdx, wheel_centers>>
                \/ \* copy2 fails after it opened the destination file
                   /\ SetupRaises(WithFile(fs.case, DestPath(component), << >>))
                   /\ UNCHANGED <<placeIdx, wheel_centers>>
    /\ UNCHANGED <<program, args, stl_files, content, wheelIdx, pipeVars, findVars, endVars, callVars>>

\* wheel_centers.items()
WheelOrder(centers) == SelectSeq(stl_components, LAMBDA c : c \in DOMAIN centers)

\* _update_wheel_centers up to its loop: the existence test and the read.
ReadVelocityFile ==
    /\ spc = "wheels"
    /\ IF U_FILE \notin DOMAIN fs.case.files
       THEN /\ SetupGoes("decompose", fs.case, << [msg |-> "Warning: U file not found"] >>)
            /\ UNCHANGED <<content, wheelIdx>>
       ELSE \/ /\ SetupGoes("sub", fs.case, << >>)
               /\ content' = fs.case.files[U_FILE]
               /\ wheelIdx' = 1
            \/ /\ SetupRaises(fs.case)
               /\ UNCHANGED <<content, wheelIdx>>
    /\ UNCHANGED <<program, args, stl_files, placeIdx, wheel_centers,
                   pipeVars, findVars, endVars, callVars>>

\* One pass of _update_wheel_centers' loop: the substitution for one component.
PatchOrigin ==
    /\ spc = "sub"
    /\ LET component == WheelOrder(wheel_centers)[wheelIdx]
           new == ReSubOrigin(content, component, OriginStr(wheel_centers[component]))
       IN  /\ content' = new
           /\ wheelIdx' = wheelIdx + 1
           /\ SetupGoes(IF wheelIdx < Len(WheelOrder(wheel_centers)) THEN "sub" ELSE "write",
                        fs.case,
                        << [msg |-> IF new # content
                                    THEN "Updated origin"
                                    ELSE "Warning: Could not find/update origin",
                            component |-> component] >>)
    /\ UNCHANGED <<program, args, stl_files, placeIdx, wheel_centers,
                   pipeVars, findVars, endVars, callVars>>

\* _update_wheel_centers' end: the text is written back.  open(.., 'w')
\* truncates the file before anything is written.
WriteVelocityFile ==
    /\ spc = "write"
    /\ \/ SetupGoes("decompose", WithFile(fs.case, U_FILE, content), << >>)
       \/ SetupRaises(fs.case)
       \/ SetupRaises(WithFile(fs.case, U_FILE, << >>))
    /\ content' = << >>
    /\ wheelIdx' = 0
    /\ UNCHANGED <<program, args, stl_files, placeIdx, wheel_centers,
                   pipeVars, findVars, endVars, callVars>>

\* Whether setup_case patches the decomposition dictionary: CaseSetup always,
\* the earlier setup_case "if n_proc".
PatchesSubdomains == program # "setupcase" \/ args.n_proc # 0

\* The patch written to the template's dictionary, not the destination's.
DictPatchedInTemplate(f, n_proc) ==
    [f EXCEPT !.base = WithFile(f.base, DECOMPOSE_FILE,
                                ReSubSubdomains(f.base.files[DECOMPOSE_FILE], n_proc))]

\* decompose_file = case_dir / "system" / "decomposeParDict": read, re.sub, write.
DictPatched(f, n_proc) ==
    [f EXCEPT !.case = WithFile(f.case, DECOMPOSE_FILE,
                                ReSubSubdomains(f.case.files[DECOMPOSE_FILE], n_proc))]

\* _update_decompose_par_dict / update_decompose_par_dict, and the return.
UpdateDecomposeParDict ==
    /\ spc = "decompose"
    /\ LET present == DECOMPOSE_FILE \in DOMAIN fs.case.files
           done == IF program = "setupcase" THEN "finished" ELSE "returned"
       IN  \/ /\ fs' = IF PatchesSubdomains /\ present
                       THEN DictPatched(fs, args.n_proc) ELSE fs
              /\ spc' = done
              /\ setupResult' = IF program = "setupcase" THEN setupResult ELSE "True"
              /\ printed' = Append(printed, [msg |-> "Case setup completed"])
              /\ UNCHANGED <<exitStatus, pc>>
           \/ /\ PatchesSubdomains /\ present
              /\ \/ SetupRaises(fs.case)
                 \/ SetupRaises(WithFile(fs.case, DECOMPOSE_FILE, << >>))
    /\ UNCHANGED <<program, args, stl_files, placeIdx, wheel_centers, content, wheelIdx,
                   pipeVars, findVars, endVars, callVars>>

\* Entry of setup_case.
EnterSetup(mapping) ==
    /\ spc' = "rmtree"
    /\ stl_files' = mapping
    /\ UNCHANGED <<placeIdx, wheel_centers, content, wheelIdx, setupResult>>

InitSetup ==
    /\ stl_files = << >>
    /\ spc = "idle"
    /\ placeIdx = 0
    /\ wheel_centers = << >>
    /\ content = << >>
    /\ wheelIdx = 0
    /\ setupResult = "none"

\* my-previous-setupcase.py: setup_case(base_dir, case_dir, n_proc).
PreviousSetupCaseMain ==
    /\ program = "setupcase"
    /\ \/ /\ pc = "start"
          /\ EnterSetup(<< >>)
          /\ pc' = "setup"
          /\ UNCHANGED <<exitStatus, printed, fs>>
       \/ /\ pc = "setup"
          /\ spc = "finished"
          /\ pc' = "done"
          /\ exitStatus' = "exit0"
          /\ UNCHANGED <<printed, fs, setupVars>>
    /\ UNCHANGED <<program, args, pipeVars, findVars, endVars, callVars>>

-----------------------------------------------------------------------------
(* ResultsExtractor *)

\* A line of the result table: a comment, a row of numbers, or a row holding
\* something that is no number.
Comment == [kind |-> "comment", cells |-> << >>]
Data(cells) == [kind |-> "data", cells |-> cells]
Text(cells) == [kind |-> "text", cells |-> cells]

\* A row of the solver's seven-column layout at time t.
Row7(t) == Data(<<t, 100 + t, 200 + t, 300 + t, 400 + t, 500 + t, 600 + t>>)

\* Result tables the solver may leave.
ResultTables ==
    { << Comment, Row7(1), Row7(2), Row7(3) >>,
      << Comment, Row7(5) >>,
      << Comment >>,
      << Data(<<1, 2, 3>>), Data(<<4, 5, 6>>) >>,
      << Data(<<1>>), Data(<<2>>), Data(<<3>>), Data(<<4>>), Data(<<5>>),
         Data(<<6>>), Data(<<7>>) >>,
      << Data(<<9>>) >>,
      << Row7(1), Data(<<1, 2>>) >>,
      << Row7(1), Text(<<1, 2, 3, 4, 5, 6, 7>>) >> }

\* np.loadtxt(filepath, comments="#"): comment lines are skipped; a cell that
\* is no number or rows of different lengths raise; the array is squeezed.
LoadTxt(table) ==
    LET rows == SelectSeq(table, LAMBDA r : r.kind # "comment")
        n == Len(rows)
    IN  IF \E i \in 1..n : rows[i].kind = "text" \/ Len(rows[i].cells) # Len(rows[1].cells)
        THEN [raises |-> TRUE]
        ELSE IF n = 0
        THEN [raises |-> FALSE, ndim |-> 1, data |-> << >>]
        ELSE IF n = 1 /\ Len(rows[1].cells) = 1
        THEN [raises |-> FALSE, ndim |-> 0, data |-> rows[1].cells[1]]
        ELSE IF n = 1
        THEN [raises |-> FALSE, ndim |-> 1, data |-> rows[1].cells]
        ELSE IF Len(rows[1].cells) = 1
        THEN [raises |-> FALSE, ndim |-> 1, data |-> [i \in 1..n |-> rows[i].cells[1]]]
        ELSE [raises |-> FALSE, ndim |-> 2, data |-> [i \in 1..n |-> rows[i].cells]]

NotExtracted == [state |-> "not called"]
NoResult == [state |-> "None"]

\* extract_latest_cd on a case tree.
ExtractLatestCd(tree) ==
    IF COEFFICIENT_FILE \notin DOMAIN tree.files
    THEN NoResult
    ELSE LET a == LoadTxt(tree.files[COEFFICIENT_FILE])
         IN  IF a.raises THEN NoResult
             ELSE IF a.ndim = 0 THEN NoResult            \* len() of a 0-d array raises
             ELSE IF Len(a.data) = 0 THEN NoResult
             ELSE LET latest_row == IF a.ndim = 1 THEN a.data ELSE a.data[Len(a.data)]
                  IN  IF Len(latest_row) < 7 THEN NoResult   \* IndexError
                      ELSE [state |-> "dict",
                            time |-> latest_row[1], Cd |-> latest_row[2],
                            Cl |-> latest_row[5], Cm |-> latest_row[7]]

\* What a tool may do to the trees the model follows: the solver writes the
\* result table, or leaves none.
ToolEffects(method) ==
    IF method = "run_parallel_simpleFoam" /\ fs.case.exists
    THEN {fs} \cup { [fs EXCEPT !.case = WithFile(fs.case, COEFFICIENT_FILE, t)] :
                       t \in ResultTables }
    ELSE {fs}

-----------------------------------------------------------------------------
(* The pipeline executors *)

\* The five per-component dictionaries of the feature-extraction fan-out.
dicts ==
    << "system/surfaceFeatureExtract_mainBodyDict",
       "system/surfaceFeatureExtract_FLDict",
       "system/surfaceFeatureExtract_FRDict",
       "system/surfaceFeatureExtract_RLDict",
       "system/surfaceFeatureExtract_RRDict" >>

\* str(self.case_dir): OpenFOAMRunner keeps Path(case_dir), the earlier
\* executor the string it was given.
CaseArg ==
    IF runnerClass = "OpenFOAMRunner" THEN PathStr(args.case_dir) ELSE args.case_dir

\* The command lines of the six stage methods.
BlockMeshArgv == <<"blockMesh", "-case", CaseArg>>
SurfaceFeatureExtractArgv(dictPath) ==
    <<"surfaceFeatureExtract", "-case", CaseArg, "-dict", dictPath>>
SnappyHexMeshArgv == <<"snappyHexMesh", "-overwrite", "-case", CaseArg>>
DecomposeParArgv == <<"decomposePar", "-force", "-case", CaseArg>>
MpirunArgv(n) ==
    <<"mpirun", "--allow-run-as-root", "-np", ToString(n),
      "simpleFoam", "-case", CaseArg, "-parallel">>
ReconstructParArgv == <<"reconstructPar", "-case", CaseArg>>

\* A step table that decomposes the case before it is meshed.
steps_decompose_before_mesh ==
    << <<"Background mesh generation", "run_blockMesh">>,
       <<"Surface feature extraction", "run_all_surfaceFeatureExtract">>,
       <<"Case decomposition", "decompose_case">>,
       <<"Mesh generation", "run_snappyHexMesh">>,
       <<"Parallel solver", "run_parallel_simpleFoam">>,
       <<"Case reconstruction", "reconstruct_case">> >>

\* run_full_simulation's step table: (step name, method).
steps ==
    << <<"Background mesh generation", "run_blockMesh">>,
       <<"Surface feature extraction", "run_all_surfaceFeatureExtract">>,
       <<"Mesh generation", "run_snappyHexMesh">>,
       <<"Case decomposition", "decompose_case">>,
       <<"Parallel solver", "run_parallel_simpleFoam">>,
       <<"Case reconstruction", "reconstruct_case">> >>

\* A chain that stops short of the reconstruction.
run_all_chain_without_reconstruct ==
    << "run_blockMesh", "run_all_surfaceFeatureExtract", "run_snappyHexMesh",
       "decompose_case", "run_parallel_simpleFoam" >>

\* run_all's chain of "if not self.<method>(): return False".
run_all_chain ==
    << "run_blockMesh", "run_all_surfaceFeatureExtract", "run_snappyHexMesh",
       "decompose_case", "run_parallel_simpleFoam", "reconstruct_case" >>

\* The methods the executor in use calls, in order.
StepMethods(cls) ==
    IF cls = "OpenFOAMRunner"
    THEN [i \in 1..Len(steps) |-> steps[i][2]]
    ELSE run_all_chain

StepName(i) == steps[i][1]

\* returncode != 1
ExitNotOne(rc) == rc # 1

\* returncode == 0
ExitSuccess(rc) == rc = 0

\* An executor that calls every stage method whatever the earlier ones returned.
NeverStops(ok) == FALSE

\* What the executor does with a stage method's return value: both executors
\* return False at once on a false value, and otherwise go on.
StopsOnFailure(ok) == ~ok

\* The command line the stage method at hand launches.
MethodArgv(method) ==
    CASE method = "run_blockMesh" -> BlockMeshArgv
      [] method = "run_all_surfaceFeatureExtract" ->
            SurfaceFeatureExtractArgv(dicts[dictIdx])
      [] method = "run_snappyHexMesh" -> SnappyHexMeshArgv
      [] method = "decompose_case" -> DecomposeParArgv
      [] method = "run_parallel_simpleFoam" -> MpirunArgv(args.n_proc)
      [] method = "reconstruct_case" -> ReconstructParArgv

\* The failure message of a stage method (OpenFOAMRunner only; the earlier
\* executor prints nothing).
MethodFailureMessage(method, rc) ==
    CASE method = "run_blockMesh" ->
            [msg |-> "failed with return code", operation |-> "blockMesh", rc |-> rc]
      [] method = "run_all_surfaceFeatureExtract" ->
            [msg |-> "failed with return code", operation |-> "surfaceFeatureExtract",
             dict |-> dicts[dictIdx], rc |-> rc]
      [] method = "run_snappyHexMesh" ->
            [msg |-> "failed with return code", operation |-> "snappyHexMesh", rc |-> rc]
      [] method = "decompose_case" -> [msg |-> "Case decomposition failed"]
      [] method = "run_parallel_simpleFoam" -> [msg |-> "Parallel simpleFoam failed"]
      [] method = "reconstruct_case" -> [msg |-> "Case reconstruction failed"]

AtMethod(method) ==
    /\ rpc \in {"call", "join"}
    /\ stepIdx \in 1..Len(StepMethods(runnerClass))
    /\ StepMethods(runnerClass)[stepIdx] = method

\* A launch that is not followed by a join: the caller goes on at once.
StartProcessWithoutJoin(argv) ==
    /\ rpc = "call"
    /\ invoked' = Append(invoked, argv)
    /\ inFlight' = inFlight \cup {argv}
    /\ IF stepIdx < Len(StepMethods(runnerClass))
       THEN stepIdx' = stepIdx + 1 /\ UNCHANGED <<rpc, runResult>>
       ELSE rpc' = "returned" /\ runResult' = "True" /\ UNCHANGED stepIdx
    /\ UNCHANGED <<runnerClass, dictIdx, toolExit, mainVars, findVars,
                   fs, setupVars, endVars, callVars>>

\* runner.start(): the child process is launched.
StartProcess(argv) ==
    /\ rpc = "call"
    /\ invoked' = Append(invoked, argv)
    /\ inFlight' = inFlight \cup {argv}
    /\ rpc' = "join"
    /\ UNCHANGED <<runnerClass, stepIdx, dictIdx, toolExit, runResult, mainVars, findVars,
                   fs, setupVars, endVars, callVars>>

\* An executor that calls a stage method again when it returned a false value.
AfterStageRetrying(ok, lines) ==
    IF ~ok
    THEN /\ rpc' = "call"
         /\ printed' = printed \o lines
         /\ UNCHANGED <<stepIdx, dictIdx, runResult>>
    ELSE IF stepIdx < Len(StepMethods(runnerClass))
    THEN /\ stepIdx' = stepIdx + 1
         /\ dictIdx' = 1
         /\ rpc' = "call"
         /\ printed' = printed \o lines
         /\ UNCHANGED runResult
    ELSE /\ runResult' = "True"
         /\ rpc' = "returned"
         /\ stepIdx' = stepIdx + 1
         /\ printed' = printed \o lines \o << [msg |-> "Total time elapsed"] >>
         /\ UNCHANGED dictIdx

\* The executor's loop after a stage method returned `ok`.
AfterStage(ok, lines) ==
    IF StopsOnFailure(ok)
    THEN /\ runResult' = "False"
         /\ rpc' = "returned"
         /\ printed' = printed \o lines \o
               (IF runnerClass = "OpenFOAMRunner"
                THEN << [msg |-> "Simulation failed at step", step |-> StepName(stepIdx)] >>
                ELSE << >>)
         /\ UNCHANGED <<stepIdx, dictIdx>>
    ELSE IF stepIdx < Len(StepMethods(runnerClass))
    THEN /\ stepIdx' = stepIdx + 1
         /\ dictIdx' = 1
         /\ rpc' = "call"
         /\ printed' = printed \o lines
         /\ UNCHANGED runResult
    ELSE /\ runResult' = "True"
         /\ rpc' = "returned"
         /\ stepIdx' = stepIdx + 1
         /\ printed' = printed \o lines \o << [msg |-> "Total time elapsed"] >>
         /\ UNCHANGED dictIdx

\* A fan-out that runs every member and answers with the last one's result.
AfterMemberToTheEnd(ok, lines) ==
    IF dictIdx < Len(dicts)
    THEN /\ dictIdx' = dictIdx + 1
         /\ rpc' = "call"
         /\ printed' = printed \o lines
         /\ UNCHANGED <<stepIdx, runResult>>
    ELSE AfterStage(ok, lines)

\* run_all_surfaceFeatureExtract's loop after one member returned `ok`.
AfterMember(ok, lines) ==
    IF ~ok
    THEN AfterStage(FALSE, lines)
    ELSE IF dictIdx < Len(dicts)
    THEN /\ dictIdx' = dictIdx + 1
         /\ rpc' = "call"
         /\ printed' = printed \o lines
         /\ UNCHANGED <<stepIdx, runResult>>
    ELSE AfterStage(TRUE, lines)

\* A command line with its case directory in pathlib's spelling: two command
\* lines that agree in it run the same tool on the same directory.
Normalised(argv) ==
    [ k \in 1..Len(argv) |-> IF k > 1 /\ argv[k - 1] = "-case" THEN PathStr(argv[k]) ELSE argv[k] ]

\* runner.run.join() and the test of runner.run.returncode.  A tool run again
\* on the same directory exits as it did before.
JoinProcess(method) ==
    /\ rpc = "join"
    /\ \E rc \in ExitCodes :
          LET argv == MethodArgv(method)
              ok == ExitSuccess(rc)
              lines == IF ok \/ runnerClass # "OpenFOAMRunner"
                       THEN << >>
                       ELSE << MethodFailureMessage(method, rc) >>
          IN  /\ \A seen \in DOMAIN toolExit :
                    Normalised(seen) = Normalised(argv) => rc = toolExit[seen]
              /\ toolExit' = (argv :> rc) @@ toolExit
              /\ inFlight' = inFlight \ {argv}
              /\ fs' \in ToolEffects(method)
              /\ IF method = "run_all_surfaceFeatureExtract"
                 THEN AfterMember(ok, lines)
                 ELSE AfterStage(ok, lines)
    /\ UNCHANGED <<runnerClass, invoked, program, args, pc, exitStatus, findVars,
                   setupVars, endVars, callVars>>

run_blockMesh ==
    /\ AtMethod("run_blockMesh")
    /\ \/ StartProcess(BlockMeshArgv)
       \/ JoinProcess("run_blockMesh")

run_surfaceFeatureExtract ==
    /\ AtMethod("run_all_surfaceFeatureExtract")
    /\ \/ StartProcess(SurfaceFeatureExtractArgv(dicts[dictIdx]))
       \/ JoinProcess("run_all_surfaceFeatureExtract")

run_snappyHexMesh ==
    /\ AtMethod("run_snappyHexMesh")
    /\ \/ StartProcess(SnappyHexMeshArgv)
       \/ JoinProcess("run_snappyHexMesh")

decompose_case ==
    /\ AtMethod("decompose_case")
    /\ \/ StartProcess(DecomposeParArgv)
       \/ JoinProcess("decompose_case")

run_parallel_simpleFoam ==
    /\ AtMethod("run_parallel_simpleFoam")
    /\ \/ StartProcess(MpirunArgv(args.n_proc))
       \/ JoinProcess("run_parallel_simpleFoam")

reconstruct_case ==
    /\ AtMethod("reconstruct_case")
    /\ \/ StartProcess(ReconstructParArgv)
       \/ JoinProcess("reconstruct_case")

\* Entry of run_full_simulation / run_all: start_time is taken, the first
\* stage method is about to be called.
EnterExecutor(cls) ==
    /\ rpc = "idle"
    /\ runnerClass' = cls
    /\ rpc' = "call"
    /\ stepIdx' = 1
    /\ dictIdx' = 1
    /\ UNCHANGED <<invoked, toolExit, inFlight, runResult>>

\* my-previous-runner.py as a script: run_all(), its value ignored.
PreviousRunnerMain ==
    /\ program = "runner"
    /\ \/ /\ pc = "start"
          /\ EnterExecutor("OpenFOAMParallelRunner")
          /\ pc' = "run"
          /\ UNCHANGED <<exitStatus, printed>>
       \/ /\ pc = "run"
          /\ rpc = "returned"
          /\ pc' = "done"
          /\ exitStatus' = "exit0"
          /\ printed' = Append(printed, [msg |-> "Parallel run completed successfully"])
          /\ UNCHANGED pipeVars
    /\ UNCHANGED <<program, args, findVars, fs, setupVars, endVars, callVars>>

InitPipe ==
    /\ runnerClass = "none"
    /\ rpc = "idle"
    /\ stepIdx = 0
    /\ dictIdx = 0
    /\ invoked = << >>
    /\ toolExit = << >>
    /\ inFlight = {}
    /\ runResult = "none"


\* No caller of this kind is running.
InitCalls ==
    /\ setupCalls = 0
    /\ afterFirst = << >>
    /\ firstRun = [invoked |-> << >>, result |-> "none"]

InitResolver ==
    /\ program = "_find_stl_files_in_folder"
    /\ args = [n_proc |-> DefaultNProc]
    /\ fs = [base |-> BaseFull, case |-> NoTree]
    /\ pc = "start"
    /\ exitStatus = "running"
    /\ printed = << >>
    /\ InitPipe
    /\ InitFind
    /\ InitSetup
    /\ selections = 0
    /\ results = NotExtracted
    /\ InitCalls

NextResolver ==
    \/ FindStlFilesInFolder
    \/ SelectFile

SpecResolver == InitResolver /\ [][NextResolver]_vars

-----------------------------------------------------------------------------
(* main.py: main() *)

\* Folders examined by select_files_cli in one run.
MaxSelections == 1

\* The files the folder named to main.py may hold.
MainFileNames == {FL_stl, fl2_stl, FRL_stl, RR_stl, mainBody_stl}

\* Command lines: --stl-dir names a folder, a path that does not exist or a
\* path that is no directory, or is absent; --cli-mode; --auto-run.
MainArgs ==
    { [stl_dir |-> d, cli_mode |-> FALSE, auto_run |-> a, n_proc |-> DefaultNProc,
       case_dir |-> CASE_DIR] :
        d \in {"folder", "missing", "notdir", ""}, a \in BOOLEAN }
    \cup
    { [stl_dir |-> "", cli_mode |-> TRUE, auto_run |-> a, n_proc |-> DefaultNProc,
       case_dir |-> CASE_DIR] :
        a \in BOOLEAN }

\* sys.exit(code), or an exception nobody catches.
Exit(status, lines) ==
    /\ pc' = "done"
    /\ exitStatus' = status
    /\ printed' = printed \o lines

\* The locals of _find_stl_files_in_folder are gone once it returned.
FindLeft ==
    /\ fpc' = "idle"
    /\ stl_listing' = << >>
    /\ compIdx' = 0
    /\ matching_files' = << >>
    /\ found_files' = << >>
    /\ choice' = [kind |-> "none"]
    /\ retries' = 0
    /\ findResult' = << >>

\* The check of --base-dir.
MainStart ==
    /\ program = "main"
    /\ pc = "start"
    /\ IF ~fs.base.exists
       THEN Exit("exit1", << [msg |-> "Error: Base directory does not exist"] >>)
       ELSE pc' = "select" /\ UNCHANGED <<exitStatus, printed>>
    /\ UNCHANGED <<program, args, pipeVars, findVars, fs, setupVars, endVars, callVars>>

\* --stl-dir was given: its checks, then _find_stl_files_in_folder.
SelectProvided ==
    /\ program = "main"
    /\ pc = "select"
    /\ args.stl_dir # ""
    /\ IF args.stl_dir # "folder"
       THEN /\ Exit("exit1", << [msg |-> "Error: STL directory", why |-> args.stl_dir] >>)
            /\ UNCHANGED findVars
       ELSE /\ \E entries \in Listings(MainFileNames, MaxFiles) : FindStart(entries)
            /\ pc' = "find"
            /\ UNCHANGED exitStatus
    /\ UNCHANGED <<program, args, pipeVars, fs, setupVars, endVars, callVars>>

\* select_files_cli up to its call of _find_stl_files_in_folder.
select_files_cli ==
    /\ program = "main"
    /\ pc = "select"
    /\ args.stl_dir = ""
    /\ args.cli_mode
    /\ \/ \* input() raises EOFError, caught by main's "except Exception"
          /\ Exit("exit1", << [msg |-> "Error during file selection"] >>)
          /\ UNCHANGED <<findVars, selections>>
       \/ \* an empty path, a path that does not exist or is no directory: asked again
          /\ UNCHANGED <<pc, exitStatus, printed, findVars, selections>>
       \/ /\ selections < MaxSelections
          /\ selections' = selections + 1
          /\ \E entries \in Listings(MainFileNames, MaxFiles) : FindStart(entries)
          /\ pc' = "find"
          /\ UNCHANGED exitStatus
    /\ UNCHANGED <<program, args, pipeVars, fs, setupVars, results, callVars>>

\* select_files_gui up to its call of _find_stl_files_in_folder.
select_files_gui ==
    /\ program = "main"
    /\ pc = "select"
    /\ args.stl_dir = ""
    /\ ~args.cli_mode
    /\ \/ \* tk.Tk() raises (no display), caught by main's "except Exception"
          /\ Exit("exit1", << [msg |-> "Error during file selection"] >>)
          /\ UNCHANGED findVars
       \/ \* the dialog was cancelled
          /\ Exit("exit1", << [msg |-> "No folder selected. Exiting..."] >>)
          /\ UNCHANGED findVars
       \/ /\ \E entries \in Listings(MainFileNames, MaxFiles) : FindStart(entries)
          /\ pc' = "find"
          /\ UNCHANGED exitStatus
    /\ UNCHANGED <<program, args, pipeVars, fs, setupVars, endVars, callVars>>

\* A caller that takes whatever was returned for a mapping.
NeverEmpty(found) == FALSE

\* "if not stl_files" / "if not self.selected_files": the empty dict is falsy.
NothingFound(found) == found = << >>

\* What the three callers do with what _find_stl_files_in_folder returned or
\* raised: "if not stl_files" / "if not self.selected_files".
AfterFind ==
    /\ program = "main"
    /\ pc = "find"
    /\ fpc \in {"returned", "raised"}
    /\ FindLeft
    /\ IF fpc = "raised"
       THEN /\ Exit("exit1", << [msg |-> "Error during file selection"] >>)
            /\ UNCHANGED stl_files
       ELSE IF NothingFound(findResult)
       THEN IF args.stl_dir = "" /\ args.cli_mode
            THEN /\ pc' = "select"
                 /\ printed' = Append(printed, [msg |-> "Could not find all required STL files"])
                 /\ UNCHANGED <<exitStatus, stl_files>>
            ELSE /\ Exit("exit1", << [msg |-> "Could not find all required STL files"] >>)
                 /\ UNCHANGED stl_files
       ELSE /\ stl_files' = findResult
            /\ pc' = "confirm"
            /\ UNCHANGED <<exitStatus, printed>>
    /\ UNCHANGED <<program, args, pipeVars, fs, spc, placeIdx, wheel_centers, content,
                   wheelIdx, setupResult, endVars, callVars>>

\* "Proceed with simulation? (y/N)" unless --auto-run, then setup_case is called.
ConfirmSettings ==
    /\ program = "main"
    /\ pc = "confirm"
    /\ \/ \* --auto-run, or the answer is y or yes
          /\ EnterSetup(stl_files)
          /\ pc' = "setup"
          /\ UNCHANGED <<exitStatus, printed>>
       \/ /\ ~args.auto_run
          /\ Exit("exit0", << [msg |-> "Simulation cancelled."] >>)
          /\ UNCHANGED setupVars
       \/ \* input() raises EOFError outside any try
          /\ ~args.auto_run
          /\ Exit("raised", << >>)
          /\ UNCHANGED setupVars
    /\ UNCHANGED <<program, args, pipeVars, findVars, fs, endVars, callVars>>

\* A main() that starts the executor whatever setup_case returned.
SetupNeverFailed == FALSE

\* "if not case_setup.setup_case(stl_files)"
SetupFailed == setupResult # "True"

\* "if not case_setup.setup_case(stl_files): sys.exit(1)", then the executor.
AfterSetup ==
    /\ program = "main"
    /\ pc = "setup"
    /\ spc = "returned"
    /\ IF SetupFailed
       THEN /\ Exit("exit1", << [msg |-> "Case setup failed. Exiting..."] >>)
            /\ UNCHANGED pipeVars
       ELSE /\ EnterExecutor("OpenFOAMRunner")
            /\ pc' = "run"
            /\ UNCHANGED <<exitStatus, printed>>
    /\ UNCHANGED <<program, args, findVars, fs, setupVars, endVars, callVars>>

\* A main() that goes on to the extractor whatever the executor returned.
RunNeverFailed == FALSE

\* "if not runner.run_full_simulation()"
RunFailed == runResult # "True"

\* "if not runner.run_full_simulation(): sys.exit(1)"
AfterRun ==
    /\ program = "main"
    /\ pc = "run"
    /\ rpc = "returned"
    /\ IF RunFailed
       THEN Exit("exit1", << [msg |-> "Simulation failed. Exiting..."] >>)
       ELSE pc' = "extract" /\ UNCHANGED <<exitStatus, printed>>
    /\ UNCHANGED <<program, args, pipeVars, findVars, fs, setupVars, endVars, callVars>>

\* results = extractor.extract_latest_cd()
ExtractResults ==
    /\ program = "main"
    /\ pc = "extract"
    /\ results' = ExtractLatestCd(fs.case)
    /\ pc' = "report"
    /\ UNCHANGED <<program, args, exitStatus, printed, pipeVars, findVars, fs, setupVars,
                   selections, callVars>>

\* The summary is written whatever was returned.
AlwaysTruthy(r) == TRUE

\* "if results:" None is falsy, the dict of four entries truthy.
Truthy(r) == r.state = "dict"

\* "if results:" the summary file is written; then main returns.
SaveResults ==
    /\ program = "main"
    /\ pc = "report"
    /\ IF Truthy(results)
       THEN \/ /\ fs' = [fs EXCEPT !.case = WithFile(fs.case, RESULTS_FILE, << results >>)]
               /\ Exit("exit0", << [msg |-> "Results saved"], [msg |-> "Simulation completed!"] >>)
            \/ \* open() or write() raises outside any try
               /\ Exit("raised", << >>)
               /\ UNCHANGED fs
       ELSE /\ Exit("exit0", << [msg |-> "Warning: Could not extract results"],
                                [msg |-> "Simulation completed!"] >>)
            /\ UNCHANGED fs
    /\ UNCHANGED <<program, args, pipeVars, findVars, setupVars, endVars, callVars>>

InitEnd ==
    /\ selections = 0
    /\ results = NotExtracted

Init ==
    /\ program \in {"main", "runner", "setupcase"}
    /\ args \in IF program = "main" THEN MainArgs
                ELSE IF program = "runner"
                THEN { [n_proc |-> n, case_dir |-> PreviousCase] : n \in NProcs }
                ELSE { [n_proc |-> n] : n \in {0} \cup NProcs }
    /\ fs \in [base : IF program = "runner" THEN {BaseFull} ELSE Templates,
               case : PriorCases]
    /\ pc = "start"
    /\ exitStatus = "running"
    /\ printed = << >>
    /\ InitPipe
    /\ InitFind
    /\ InitSetup
    /\ InitEnd
    /\ InitCalls

Next ==
    \/ MainStart
    \/ SelectProvided
    \/ select_files_cli
    \/ select_files_gui
    \/ SelectFile
    \/ AfterFind
    \/ ConfirmSettings
    \/ RemoveExisting
    \/ CopyBase
    \/ MakeTriSurfaceDir
    \/ PlaceComponent
    \/ ReadVelocityFile
    \/ PatchOrigin
    \/ WriteVelocityFile
    \/ UpdateDecomposeParDict
    \/ AfterSetup
    \/ run_blockMesh
    \/ run_surfaceFeatureExtract
    \/ run_snappyHexMesh
    \/ decompose_case
    \/ run_parallel_simpleFoam
    \/ reconstruct_case
    \/ AfterRun
    \/ ExtractResults
    \/ SaveResults
    \/ PreviousRunnerMain
    \/ PreviousSetupCaseMain

Spec == Init /\ [][Next]_vars

-----------------------------------------------------------------------------
(* CaseSetup.setup_case called twice in a row *)

\* The configuration files of the destination: the velocity file and the
\* decomposition dictionary, where present.
ConfigFiles(tree) == Restrict(tree.files, {U_FILE, DECOMPOSE_FILE} \cap DOMAIN tree.files)

\* The mappings the resolver can return for the folders of the model: each
\* component bound to a *.stl file that holds its name.
Mappings ==
    { m \in [ { stl_components[i] : i \in 1..Len(stl_components) } ->
          { f \in FileNames : EndsWith(f, DotStl) } ] :
        \A c \in DOMAIN m : MatchTable[c, m[c]] }

\* A caller of CaseSetup.setup_case that, its first call having returned True,
\* calls it again on the same object: same template, mapping and n_proc.
SetupCaseTwice ==
    /\ program = "setup_case twice"
    /\ \/ /\ pc = "start"
          /\ EnterSetup(stl_files)
          /\ pc' = "first"
          /\ setupCalls' = 1
          /\ UNCHANGED <<afterFirst, firstRun>>
       \/ /\ pc = "first"
          /\ spc = "returned"
          /\ setupResult = "True"
          /\ EnterSetup(stl_files)
          /\ pc' = "second"
          /\ setupCalls' = 2
          /\ afterFirst' = ConfigFiles(fs.case)
          /\ UNCHANGED firstRun
       \/ /\ pc = "first"
          /\ spc = "returned"
          /\ setupResult = "False"
          /\ pc' = "done"
          /\ UNCHANGED <<setupVars, callVars>>
       \/ /\ pc = "second"
          /\ spc = "returned"
          /\ pc' = "done"
          /\ UNCHANGED <<setupVars, callVars>>
    /\ UNCHANGED <<program, args, exitStatus, printed, pipeVars, findVars, fs, endVars>>

InitTwice ==
    /\ program = "setup_case twice"
    /\ args \in { [n_proc |-> n] : n \in NProcs }
    /\ fs \in [base : Templates, case : PriorCases]
    /\ pc = "start"
    /\ exitStatus = "running"
    /\ printed = << >>
    /\ InitPipe
    /\ InitFind
    /\ stl_files \in Mappings
    /\ spc = "idle"
    /\ placeIdx = 0
    /\ wheel_centers = << >>
    /\ content = << >>
    /\ wheelIdx = 0
    /\ setupResult = "none"
    /\ InitEnd
    /\ InitCalls

NextTwice ==
    \/ SetupCaseTwice
    \/ RemoveExisting
    \/ CopyBase
    \/ MakeTriSurfaceDir
    \/ PlaceComponent
    \/ ReadVelocityFile
    \/ PatchOrigin
    \/ WriteVelocityFile
    \/ UpdateDecomposeParDict

SpecTwice == InitTwice /\ [][NextTwice]_vars

-----------------------------------------------------------------------------
(* The two executors, one after the other on the same tools *)

ExecutorClasses == {"OpenFOAMRunner", "OpenFOAMParallelRunner"}

\* Spellings of the case directory the two are constructed with: 'case',
\* './case', '../case', 'case/'.
CaseDirs == { <<"case">>, CASE_DIR, PreviousCase, <<"case", "">> }

\* A caller that runs one executor to its return and then the other, the
\* tools answering a command line they have seen with the exit code they
\* gave it before.
RunBothExecutors ==
    /\ program = "both executors"
    /\ \/ /\ pc = "start"
          /\ \E cls \in ExecutorClasses : EnterExecutor(cls)
          /\ pc' = "first"
          /\ UNCHANGED firstRun
       \/ /\ pc = "first"
          /\ rpc = "returned"
          /\ firstRun' = [invoked |-> invoked, result |-> runResult]
          /\ runnerClass' = CHOOSE cls \in ExecutorClasses : cls # runnerClass
          /\ rpc' = "call"
          /\ stepIdx' = 1
          /\ dictIdx' = 1
          /\ invoked' = << >>
          /\ runResult' = "none"
          /\ pc' = "second"
          /\ UNCHANGED <<toolExit, inFlight>>
       \/ /\ pc = "second"
          /\ rpc = "returned"
          /\ pc' = "done"
          /\ UNCHANGED <<pipeVars, firstRun>>
    /\ UNCHANGED <<program, args, exitStatus, printed, findVars, fs, setupVars, endVars,
                   setupCalls, afterFirst>>

InitBoth ==
    /\ program = "both executors"
    /\ args \in { [n_proc |-> n, case_dir |-> d] : n \in NProcs, d \in CaseDirs }
    /\ fs = [base |-> BaseFull, case |-> NoTree]
    /\ pc = "start"
    /\ exitStatus = "running"
    /\ printed = << >>
    /\ InitPipe
    /\ InitFind
    /\ InitSetup
    /\ InitEnd
    /\ InitCalls

NextBoth ==
    \/ RunBothExecutors
    \/ run_blockMesh
    \/ run_surfaceFeatureExtract
    \/ run_snappyHexMesh
    \/ decompose_case
    \/ run_parallel_simpleFoam
    \/ reconstruct_case

SpecBoth == InitBoth /\ [][NextBoth]_vars


-----------------------------------------------------------------------------
(* Properties of the pipeline executors *)

\* The invocation launched i-th has exited, with a code other than zero.
FailedAt(i) == invoked[i] \in DOMAIN toolExit /\ toolExit[invoked[i]] # 0

\* The invocation launched i-th has exited with code zero.
ZeroAt(i) == invoked[i] \in DOMAIN toolExit /\ toolExit[invoked[i]] = 0

\* C1: an invocation that exited with a code other than zero is the last one
\* launched in its run, no process is left running, and the executor has
\* returned failure.
C1_StopAtFirstFailure ==
    \A i \in 1..Len(invoked) :
        FailedAt(i) =>
            /\ i = Len(invoked)
            /\ inFlight = {}
            /\ rpc = "returned"
            /\ runResult = "False"

\* The third member of the fan-out failed under run_full_simulation.
C1_Witness ==
    /\ runnerClass = "OpenFOAMRunner"
    /\ Len(invoked) = 4
    /\ FailedAt(4)
    /\ runResult = "False"

\* The tools of the ten invocations of a run, in order.
StageTools ==
    << "blockMesh",
       "surfaceFeatureExtract", "surfaceFeatureExtract", "surfaceFeatureExtract",
       "surfaceFeatureExtract", "surfaceFeatureExtract",
       "snappyHexMesh", "decomposePar", "mpirun", "reconstructPar" >>

\* C2: the command lines launched so far are a prefix of blockMesh, the five
\* surfaceFeatureExtract runs, snappyHexMesh, decomposePar, mpirun simpleFoam,
\* reconstructPar; and each was launched only after all before it had exited
\* with code zero.
C2_FixedOrder ==
    /\ Len(invoked) <= Len(StageTools)
    /\ \A i \in 1..Len(invoked) :
          /\ invoked[i][1] = StageTools[i]
          /\ invoked[i][1] = "mpirun" => invoked[i][5] = "simpleFoam"
          /\ invoked[i][1] = "surfaceFeatureExtract" => invoked[i][5] = dicts[i - 1]
          /\ \A j \in 1..(i - 1) : ZeroAt(j)

\* reconstructPar was launched by main.py and has not exited yet.
C2_Witness ==
    /\ program = "main"
    /\ Len(invoked) = Len(StageTools)
    /\ rpc = "join"
    /\ inFlight = {ReconstructParArgv}

\* All ten invocations were launched and each exited with code zero.
AllTenZero ==
    /\ Len(invoked) = Len(StageTools)
    /\ Cardinality({ invoked[i] : i \in 1..Len(invoked) }) = Len(StageTools)
    /\ \A i \in 1..Len(invoked) : ZeroAt(i)

\* C3: the executor returns success exactly when all ten invocations ran and
\* each exited with code zero; any other exit code makes it return failure.
C3_SuccessIffAllZero ==
    /\ runResult # "none" <=> rpc = "returned"
    /\ rpc = "returned" => (runResult = "True" <=> AllTenZero)
    /\ rpc = "returned" => (runResult = "False" <=> \E i \in 1..Len(invoked) : FailedAt(i))

\* run_all returned success after ten invocations.
C3_Witness ==
    /\ runnerClass = "OpenFOAMParallelRunner"
    /\ rpc = "returned"
    /\ runResult = "True"
    /\ Len(invoked) = Len(StageTools)

-----------------------------------------------------------------------------
(* Properties of main() and of setup_case *)

\* The five canonical component names.
CanonicalNames == { stl_components[i] : i \in 1..Len(stl_components) }

\* setup_case was called in this run.
SetupCalled == spc # "idle"

\* The executor was called in this run.
ExecutorCalled == rpc # "idle"

CompleteOrEmpty(mapping) == mapping = << >> \/ DOMAIN mapping = CanonicalNames

\* C8: what _find_stl_files_in_folder returned, and what main() hands to
\* setup_case, binds all five canonical names or none.
C8_CompleteOrEmpty ==
    /\ fpc = "returned" => CompleteOrEmpty(findResult)
    /\ CompleteOrEmpty(stl_files)
    /\ pc = "confirm" => stl_files # << >>

\* setup_case works on a complete mapping whose FL was found as fl2.stl.
C8_Witness ==
    /\ program = "main"
    /\ spc = "place"
    /\ DOMAIN stl_files = CanonicalNames
    /\ stl_files["FL"] = fl2_stl

\* Where setup_case puts the file of a component.
PlacedPath(component) == <<"constant", "triSurface", component \o ".stl">>

\* Two texts agree but for the tokens of the given kind.
SameBut(kind, a, b) ==
    /\ Len(a) = Len(b)
    /\ \A i \in 1..Len(a) : a[i] = b[i] \/ (a[i].k = kind /\ b[i].k = kind)

\* setup_case has just returned successfully.
SetupSucceeded ==
    \/ program = "main" /\ pc = "setup" /\ spc = "returned" /\ setupResult = "True"
    \/ program = "setupcase" /\ spc = "finished"

\* C9: when setup_case has succeeded, the destination holds the files of the
\* template and the placed component files and nothing else, whatever it held
\* before: each placed file is the component's source file, the velocity file
\* and the decomposition dictionary are the template's but for the patched
\* vectors and numbers, every other file is the template's.
C9_DestinationReplaced ==
    SetupSucceeded =>
        LET placed == { PlacedPath(c) : c \in DOMAIN stl_files } IN
        /\ fs.case.exists
        /\ DOMAIN fs.case.files = DOMAIN fs.base.files \cup placed
        /\ fs.case.dirs =
              fs.base.dirs \cup
              (IF program = "main" THEN {<<"constant">>, <<"constant", "triSurface">>}
               ELSE {})
        /\ \A c \in DOMAIN stl_files :
              fs.case.files[PlacedPath(c)] = StlContent(stl_files[c])
        /\ \A path \in DOMAIN fs.base.files \ placed :
              IF path = U_FILE
              THEN SameBut("vec", fs.case.files[path], fs.base.files[path])
              ELSE IF path = DECOMPOSE_FILE
              THEN SameBut("int;", fs.case.files[path], fs.base.files[path])
              ELSE fs.case.files[path] = fs.base.files[path]

\* CaseSetup.setup_case succeeded on a destination left by an earlier run.
C9_Witness ==
    /\ program = "main"
    /\ SetupSucceeded
    /\ <<"processor0", "U">> \notin DOMAIN fs.case.files
    /\ \E k \in 1..Len(printed) : printed[k] = [msg |-> "Removing existing case"]

-----------------------------------------------------------------------------
(* Properties of _find_stl_files_in_folder *)

\* The *.stl files of the folder whose name holds the component's name,
\* whatever the case of the letters.
\* Whether a file name holds a component's name, for every pair.
HoldsName ==
    [ component \in CanonicalNames, name \in FileNames |->
        IsSubstring(Lower(Chars(component)), Lower(name)) ]

Candidates(component) == SelectSeq(stl_listing, LAMBDA f : HoldsName[component, f])

\* The canonical names without a file in the folder.
MissingNames == { c \in CanonicalNames : Len(Candidates(c)) = 0 }

\* The names reported as missing.
ReportedMissing ==
    { printed[k].component :
        k \in { n \in 1..Len(printed) : printed[n].msg = "No file found for" } }

\* C5 as claimed: once the call is over, every canonical name without a file
\* has been reported and the call has returned the empty mapping.
C5_EveryMissingReported ==
    fpc \in {"returned", "raised"} =>
        \A c \in MissingNames :
            /\ fpc = "returned"
            /\ findResult = << >>
            /\ c \in ReportedMissing

\* C5: in a folder where some canonical name has no file, the call never
\* yields a mapping; when it returns it has reported the first such name in
\* the order of stl_components and no other; before that it waits at, or has
\* raised at, the prompt of an ambiguous component that comes earlier, and
\* has reported nothing.
C5_FirstMissingReported ==
    LET missing == MissingNames IN
    (fpc # "idle" /\ missing # {}) =>
        LET first == CHOOSE i \in 1..Len(stl_components) :
                        /\ stl_components[i] \in missing
                        /\ \A j \in 1..(i - 1) : stl_components[j] \notin missing
        IN  /\ findResult = << >>
            /\ fpc \in {"returned", "input", "raised"}
            /\ fpc = "returned" => ReportedMissing = {stl_components[first]}
            /\ fpc \in {"input", "raised"} =>
                  /\ ReportedMissing = {}
                  /\ compIdx < first
                  /\ Len(Candidates(stl_components[compIdx])) > 1

\* Two names have no file, and the call got to the first of them after a
\* choice among several files.
C5_Witness ==
    /\ fpc = "returned"
    /\ choice.kind = "int"
    /\ Cardinality(MissingNames) = 2
    /\ Cardinality(ReportedMissing) = 1

\* C6: in a folder where every canonical name has exactly one file, the call
\* returns at once, binds each of the five names to its file, and has never
\* asked for a choice.
C6_UniqueMatchesBound ==
    (fpc # "idle" /\ \A c \in CanonicalNames : Len(Candidates(c)) = 1) =>
        /\ fpc = "returned"
        /\ DOMAIN findResult = CanonicalNames
        /\ \A c \in CanonicalNames : findResult[c] = Candidates(c)[1]
        /\ choice.kind = "none"
        /\ retries = 0
        /\ \A k \in 1..Len(printed) : printed[k].msg # "Multiple files found for"

\* Five files, one for each name.
C6_Witness ==
    /\ fpc = "returned"
    /\ Len(stl_listing) = Len(stl_components)
    /\ \A c \in CanonicalNames : Len(Candidates(c)) = 1
    /\ findResult["FL"] = fl2_stl

\* C7 as claimed: once an answer was refused or the input has ended, the call
\* yields no mapping.
C7_RefusedAnswerFails ==
    (retries > 0 \/ choice.kind = "eof") =>
        ~(fpc = "returned" /\ findResult # << >>)

\* The answer is no number, or a number out of range.
Refused(answer, n) ==
    \/ answer.kind = "text"
    \/ answer.kind = "int" /\ answer.n \notin 1..n

\* C7: at the prompt for a component with several files, the component gets
\* bound only by a number within range, and to the file of that number; an
\* answer that is no number or out of range binds nothing and the same
\* prompt is shown again; the end of input makes the call raise, without a
\* mapping.
C7_BoundByIndexOrAskedAgain ==
    [][ fpc = "input" =>
          LET c == stl_components[compIdx]
              n == Len(matching_files)
          IN  /\ n > 1
              /\ matching_files = Candidates(c)
              /\ c \notin DOMAIN found_files
              /\ c \in DOMAIN found_files' =>
                    /\ choice'.kind = "int"
                    /\ choice'.n \in 1..n
                    /\ found_files'[c] = matching_files[choice'.n]
              /\ Refused(choice', n) =>
                    /\ fpc' = "input"
                    /\ compIdx' = compIdx
                    /\ matching_files' = matching_files
                    /\ found_files' = found_files
                    /\ findResult' = << >>
              /\ choice'.kind = "eof" =>
                    /\ fpc' = "raised"
                    /\ found_files' = found_files
                    /\ findResult' = << >>
      ]_vars

\* An answer was refused, a later one chose a file, and the call returned a
\* complete mapping.
C7_Witness ==
    /\ retries > 0
    /\ choice.kind = "int"
    /\ fpc = "returned"
    /\ DOMAIN findResult = CanonicalNames

-----------------------------------------------------------------------------
(* Properties of _update_wheel_centers *)

\* Token p of the text lies in the block of the component: after the
\* component's name and opening brace, with no closing brace in between.
InOwnBlock(c, p, component) ==
    \E i \in 1..(p - 2) :
        /\ c[i] = W(component)
        /\ c[i + 1] = W("{")
        /\ \A k \in (i + 2)..p : c[k] # W("}")

\* C10: the substitution for a component changes nothing but origin vectors
\* inside that component's own block; every other token of the velocity
\* file is the same before and after.
C10_OnlyOwnBlockChanges ==
    [][ spc = "sub" =>
          LET component == WheelOrder(wheel_centers)[wheelIdx]
          IN  /\ Len(content') = Len(content)
              /\ \A p \in 1..Len(content) :
                    content'[p] # content[p] =>
                        /\ content[p].k = "vec"
                        /\ InOwnBlock(content, p, component)
      ]_vars

-----------------------------------------------------------------------------
(* Properties of the processor-count patch *)

\* setup_case calls the patch of the decomposition dictionary.
DictPatchCalled == program # "setupcase" \/ args.n_proc # 0

\* The step taken ends setup_case successfully.
SucceedsNext ==
    \/ spc' = "finished"
    \/ spc' = "returned" /\ setupResult' = "True"

\* The patch step, when the dictionary is absent, changes no file and
\* setup_case succeeds; when it succeeds on a dictionary, each number after
\* the keyword has become Patched(that number) and nothing else has changed.
DictStep(Patched(_)) ==
    (spc = "decompose" /\ DictPatchCalled) =>
        IF DECOMPOSE_FILE \notin DOMAIN fs.case.files
        THEN fs' = fs /\ SucceedsNext
        ELSE SucceedsNext =>
               LET old == fs.case.files[DECOMPOSE_FILE]
                   new == fs'.case.files[DECOMPOSE_FILE]
               IN  /\ fs'.base = fs.base
                   /\ fs'.case.dirs = fs.case.dirs
                   /\ DOMAIN fs'.case.files = DOMAIN fs.case.files
                   /\ \A path \in DOMAIN fs.case.files \ {DECOMPOSE_FILE} :
                         fs'.case.files[path] = fs.case.files[path]
                   /\ Len(new) = Len(old)
                   /\ \A i \in 1..Len(old) :
                         new[i] = IF /\ i > 1
                                     /\ old[i - 1] = W("numberOfSubdomains")
                                     /\ old[i].k = "int;"
                                  THEN Patched(old[i])
                                  ELSE old[i]

\* The number replaced, all else as it was.
NumberReplaced(token) == [token EXCEPT !.n = args.n_proc]

\* The number replaced and the white space before it made one blank.
NumberAndGapReplaced(token) == Spaced(1, args.n_proc)

\* C11 as claimed: the patch changes the integer after numberOfSubdomains to
\* the processor count and nothing else in the file; without the file it
\* does nothing and setup_case succeeds.
C11_OnlyTheIntegerChanges == [][ DictStep(NumberReplaced) ]_vars

\* C11: the patch makes every "numberOfSubdomains <white space> <integer>;"
\* into "numberOfSubdomains <processor count>;" with one blank, and changes
\* nothing else in the file or in the destination; without the file it does
\* nothing and setup_case succeeds.
C11_KeywordAndCountRewritten == [][ DictStep(NumberAndGapReplaced) ]_vars

\* CaseSetup.setup_case succeeded on a dictionary whose number stood after
\* two blanks.
C11_Witness ==
    /\ program = "main"
    /\ SetupSucceeded
    /\ fs.base = BaseNoFL
    /\ fs.base.files[DECOMPOSE_FILE] = TemplateDictWide
    /\ fs.case.files[DECOMPOSE_FILE] = DecomposeParDict(args.n_proc)

-----------------------------------------------------------------------------
(* Properties of two calls of setup_case in a row *)

\* The second call has returned True, after the first had.
SecondSucceeded ==
    /\ program = "setup_case twice"
    /\ setupCalls = 2
    /\ spc = "returned"
    /\ setupResult = "True"

\* C12: when setup_case has succeeded twice in a row with the same template,
\* mapping and processor count, the velocity file and the decomposition
\* dictionary are after the second call what they were after the first,
\* whatever the destination held before the first call.
C12_SecondRunChangesNothing ==
    SecondSucceeded => ConfigFiles(fs.case) = afterFirst

\* Both calls succeeded over a stale destination, and both patches had
\* something to do: the velocity file and the dictionary differ from the
\* template's.
C12_Witness ==
    /\ SecondSucceeded
    /\ \E i \in 1..Len(printed) : printed[i].msg = "Removing existing case"
    /\ {U_FILE, DECOMPOSE_FILE} \subseteq DOMAIN afterFirst
    /\ afterFirst[U_FILE] # fs.base.files[U_FILE]
    /\ afterFirst[DECOMPOSE_FILE] # fs.base.files[DECOMPOSE_FILE]

-----------------------------------------------------------------------------
(* Properties of the result extraction and the end of main *)

\* The lines of a table that are no comments.
DataRows(table) == SelectSeq(table, LAMBDA r : r.kind # "comment")

\* A table the extraction can answer from: at least one data row, every row
\* made of numbers, all of one length that reaches column 6.
WellFormed(table) ==
    LET rows == DataRows(table)
    IN  /\ Len(rows) >= 1
        /\ \A i \in 1..Len(rows) :
              /\ rows[i].kind = "data"
              /\ Len(rows[i].cells) = Len(rows[1].cells)
              /\ Len(rows[i].cells) >= 7

\* Columns 0, 1, 4 and 6 of the last data row.
LastRowSample(table) ==
    LET rows == DataRows(table)
        last == rows[Len(rows)].cells
    IN  [state |-> "dict", time |-> last[1], Cd |-> last[2], Cl |-> last[5], Cm |-> last[7]]

\* C13: what extract_latest_cd returned is the sample of the last data row of
\* the result table, columns 0, 1, 4 and 6, when the file is there and well
\* formed, and None when it is missing, has no data row or is malformed.
C13_LastRowOrNone ==
    results # NotExtracted =>
        IF COEFFICIENT_FILE \in DOMAIN fs.case.files
           /\ WellFormed(fs.case.files[COEFFICIENT_FILE])
        THEN results = LastRowSample(fs.case.files[COEFFICIENT_FILE])
        ELSE results = NoResult

\* The line was printed.
Said(text) == \E i \in 1..Len(printed) : printed[i].msg = text

\* C14: a run whose pipeline succeeded and whose extraction returned None ends
\* with exit status 0, having said that no result could be extracted and that
\* the simulation completed; and the summary file exists only when a sample
\* was extracted.
C14_SuccessWithoutResult ==
    /\ (program = "main" /\ results = NoResult /\ exitStatus # "running") =>
            /\ runResult = "True"
            /\ exitStatus = "exit0"
            /\ Said("Warning: Could not extract results")
            /\ Said("Simulation completed!")
            /\ ~Said("Results saved")
    /\ RESULTS_FILE \in DOMAIN fs.case.files =>
            /\ results.state = "dict"
            /\ fs.case.files[RESULTS_FILE] = << results >>

\* The pipeline succeeded, the solver left no usable table, and main has ended.
C14_Witness ==
    /\ program = "main"
    /\ runResult = "True"
    /\ results = NoResult
    /\ exitStatus = "exit0"
    /\ COEFFICIENT_FILE \in DOMAIN fs.case.files

-----------------------------------------------------------------------------
(* Properties of what the executors report *)

\* The stage a tool belongs to, by the names of run_full_simulation's steps.
StageOfTool(tool) ==
    CASE tool = "blockMesh" -> "Background mesh generation"
      [] tool = "surfaceFeatureExtract" -> "Surface feature extraction"
      [] tool = "snappyHexMesh" -> "Mesh generation"
      [] tool = "decomposePar" -> "Case decomposition"
      [] tool = "mpirun" -> "Parallel solver"
      [] tool = "reconstructPar" -> "Case reconstruction"

\* The lines printed that name a failed stage.
FailedStepLines == { k \in 1..Len(printed) : printed[k].msg = "Simulation failed at step" }

\* C15: when the executor has returned failure, the lines printed name the
\* stage of the first invocation that exited with a code other than zero, and
\* no other stage; when that invocation is a member of the fan-out, a line
\* names its dictionary too.
C15_FailureNamesFirstFailedStage ==
    (rpc = "returned" /\ runResult = "False") =>
        \E i \in 1..Len(invoked) :
            /\ FailedAt(i)
            /\ \A j \in 1..(i - 1) : ZeroAt(j)
            /\ FailedStepLines # {}
            /\ \A k \in FailedStepLines : printed[k].step = StageOfTool(invoked[i][1])
            /\ invoked[i][1] = "surfaceFeatureExtract" =>
                  \E k \in 1..Len(printed) :
                      /\ printed[k].msg = "failed with return code"
                      /\ printed[k].operation = "surfaceFeatureExtract"
                      /\ printed[k].dict = invoked[i][5]

\* C16: whenever the executor has returned, with success or with failure, it
\* has printed the total elapsed time.
C16_ElapsedReportedOnReturn ==
    rpc = "returned" => Said("Total time elapsed")

-----------------------------------------------------------------------------
(* Properties of the feature-extraction fan-out *)

\* The components in the order of the fan-out, and a component's dictionary.
FanOutOrder == <<"mainBody", "FL", "FR", "RL", "RR">>
DictOf(component) == "system/surfaceFeatureExtract_" \o component \o "Dict"

\* The surfaceFeatureExtract command lines launched so far, in order.
Extractions == SelectSeq(invoked, LAMBDA argv : argv[1] = "surfaceFeatureExtract")

\* The executor has gone past the fan-out: the stage returned True.
FanOutSucceeded == \E i \in 1..Len(invoked) : invoked[i][1] = "snappyHexMesh"

\* C17: the surfaceFeatureExtract runs launched so far are, in order, those of
\* mainBody, FL, FR, RL, RR with each component's own dictionary, none twice;
\* a member is launched only after those before it exited with code zero; a
\* member that exited with another code is the last command launched at all
\* and the executor has returned failure; and the next stage is reached only
\* when all five members exited with code zero.
C17_FanOutInOrderShortCircuit ==
    LET ext == Extractions
    IN  /\ Len(ext) <= Len(FanOutOrder)
        /\ \A i \in 1..Len(ext) :
              /\ Len(ext[i]) = 5
              /\ ext[i][2] = "-case"
              /\ ext[i][4] = "-dict"
              /\ ext[i][5] = DictOf(FanOutOrder[i])
              /\ \A j \in 1..(i - 1) : ext[j] \in DOMAIN toolExit /\ toolExit[ext[j]] = 0
              /\ (ext[i] \in DOMAIN toolExit /\ toolExit[ext[i]] # 0) =>
                    /\ i = Len(ext)
                    /\ invoked[Len(invoked)] = ext[i]
                    /\ rpc = "returned"
                    /\ runResult = "False"
        /\ FanOutSucceeded =>
              /\ Len(ext) = Len(FanOutOrder)
              /\ \A i \in 1..Len(ext) : ext[i] \in DOMAIN toolExit /\ toolExit[ext[i]] = 0

\* The earlier executor ran the members up to RR, and RR's exited with a code
\* other than zero.
C17_Witness ==
    /\ runnerClass = "OpenFOAMParallelRunner"
    /\ Len(Extractions) = Len(FanOutOrder)
    /\ FailedAt(Len(invoked))
    /\ runResult = "False"

-----------------------------------------------------------------------------
(* Properties of setup_case when a file operation fails *)

\* The steps of setup_case that replace the destination and place the files.
ReplacingOrPlacing == {"rmtree", "copytree", "mkdir", "place"}

\* The step ended in setup_case's exception handler.
ErrorCaught ==
    /\ Len(printed') = Len(printed) + 1
    /\ printed'[Len(printed')].msg = "Error setting up case"

\* C18: under main.py, a step of replacing the destination or placing a file
\* that ends in the exception handler makes setup_case return False at once;
\* the destination then holds nothing but files it held before the step or
\* unpatched copies of the template's (nothing is restored, nothing patched),
\* and a failure while placing leaves every file in place as it is, but for
\* the one copy2 was writing.  Once
\* setup_case has returned False the trees never change again and no tool is
\* ever launched.
C18_IOErrorAbortsAssembly ==
    [][ program = "main" =>
          /\ (spc \in ReplacingOrPlacing /\ ErrorCaught) =>
                /\ spc' = "returned"
                /\ setupResult' = "False"
                /\ fs'.base = fs.base
                /\ \A f \in DOMAIN fs'.case.files :
                      \/ f \in DOMAIN fs.case.files /\ fs'.case.files[f] = fs.case.files[f]
                      \/ f \in DOMAIN fs.base.files /\ fs'.case.files[f] = fs.base.files[f]
                      \/ spc = "place" /\ f = DestPath(Items(stl_files)[placeIdx])
                /\ spc \in {"mkdir", "place"} =>
                      \A f \in DOMAIN fs.case.files :
                          /\ f \in DOMAIN fs'.case.files
                          /\ \/ fs'.case.files[f] = fs.case.files[f]
                             \/ spc = "place" /\ f = DestPath(Items(stl_files)[placeIdx])
          /\ setupResult = "False" =>
                /\ fs' = fs
                /\ setupResult' = "False"
                /\ invoked' = << >>
                /\ rpc' = "idle" ]_vars

\* copy2 failed after FL.stl had been placed: main has exited with status 1,
\* FL.stl is in place, FR.stl is not, and no tool was launched.
C18_Witness ==
    /\ program = "main"
    /\ setupResult = "False"
    /\ exitStatus = "exit1"
    /\ DestPath("FL") \in DOMAIN fs.case.files
    /\ DestPath("FR") \notin DOMAIN fs.case.files
    /\ invoked = << >>

-----------------------------------------------------------------------------
(* Properties of setup_case when a centroid cannot be computed *)

\* The warning that the centroid of this component could not be calculated
\* was printed.
CentroidWarned(c) ==
    \E k \in 1..Len(printed) :
        /\ printed[k].msg = "Warning: Could not calculate centroid for"
        /\ printed[k].component = c

\* _update_wheel_centers made its substitution for this component, with or
\* without effect.
SubstitutionTried(c) ==
    \E k \in 1..Len(printed) :
        /\ printed[k].msg \in {"Updated origin", "Warning: Could not find/update origin"}
        /\ printed[k].component = c

Wheels == { wheels[i] : i \in 1..Len(wheels) }

\* C19 as stated: once the centroid of a wheel could not be computed, no
\* centroid is recorded and no origin substitution is made any more, and the
\* files placed stay in place.
C19_NoRecordAfterThrow ==
    [][ (program = "main" /\ \E c \in Wheels : CentroidWarned(c)) =>
          /\ DOMAIN wheel_centers' \subseteq DOMAIN wheel_centers
          /\ \A c \in Wheels : SubstitutionTried(c)' => SubstitutionTried(c)
          /\ \A c \in DOMAIN stl_files :
                DestPath(c) \in DOMAIN fs.case.files => DestPath(c) \in DOMAIN fs'.case.files ]_vars

\* The components the loop of setup_case has been through.
Placed == { Items(stl_files)[i] : i \in 1..(placeIdx - 1) }

\* C19, amended: a wheel whose centroid could not be computed is the only one
\* skipped.  It has no centroid record and no substitution is made for it;
\* its file and the files placed before it are in place; every other wheel
\* the loop has been through, its mesh loading, has its record; and when
\* setup_case has succeeded over a velocity file, a substitution was made for
\* every recorded wheel.
C19_OnlyThatWheelSkipped ==
    \A c \in Wheels :
        (program = "main" /\ CentroidWarned(c)) =>
            /\ c \notin DOMAIN wheel_centers
            /\ ~SubstitutionTried(c)
            /\ \A d \in Placed :
                  /\ DestPath(d) \in DOMAIN fs.case.files
                  /\ fs.case.files[DestPath(d)] = StlContent(stl_files[d])
                  /\ (d \in Wheels /\ MeshLoad(stl_files[d]).ok) => d \in DOMAIN wheel_centers
            /\ (SetupSucceeded /\ U_FILE \in DOMAIN fs.case.files) =>
                  \A d \in DOMAIN wheel_centers : SubstitutionTried(d)

\* FL's centroid could not be computed, FR's was recorded after that and the
\* substitution for FR was made; setup_case returned True.
C19_Witness ==
    /\ program = "main"
    /\ CentroidWarned("FL")
    /\ "FR" \in DOMAIN wheel_centers
    /\ SubstitutionTried("FR")
    /\ SetupSucceeded
    /\ DestPath("FL") \in DOMAIN fs.case.files

-----------------------------------------------------------------------------
(* Properties of _update_wheel_centers when there is nothing to patch *)

\* The text holds a block of the component with the rotatingWallVelocity
\* marker in it.
MotionBlockLocated(c, component) ==
    \E p \in 1..Len(c) :
        /\ c[p] = W("rotatingWallVelocity;")
        /\ InOwnBlock(c, p, component)

\* C20: a substitution for a component whose motion block is not in the
\* velocity file leaves the text as it is, prints the warning for that
\* component and goes on to the next component or to the write; with no
\* velocity file at all, the patch prints its warning, changes no file and
\* setup_case goes on to the processor-count patch.
C20_MissingBlockIsOnlyAWarning ==
    [][ /\ (spc = "sub" /\ ~MotionBlockLocated(content, WheelOrder(wheel_centers)[wheelIdx])) =>
              /\ content' = content
              /\ printed' = Append(printed,
                                   [msg |-> "Warning: Could not find/update origin",
                                    component |-> WheelOrder(wheel_centers)[wheelIdx]])
              /\ spc' \in {"sub", "write"}
        /\ (spc = "wheels" /\ U_FILE \notin DOMAIN fs.case.files) =>
              /\ fs' = fs
              /\ printed' = Append(printed, [msg |-> "Warning: U file not found"])
              /\ spc' = "decompose"
      ]_vars

-----------------------------------------------------------------------------
(* Properties of the file system while no mapping was resolved *)

\* C21: the resolver never changes a file or a directory, and as long as
\* main.py holds no mapping (every resolution so far has failed, or none was
\* made) nothing of the template or of the destination is removed, created
\* or modified.
C21_FailedResolutionWritesNothing ==
    [][ /\ fpc \in {"loop", "input"} => fs' = fs
        /\ (program = "main" /\ stl_files' = << >>) => fs' = fs ]_vars

\* main.py has exited with status 1 after a resolution that bound FL by a
\* chosen index and then found no file for a later component; the stale
\* destination is as it was.
C21_Witness ==
    /\ program = "main"
    /\ exitStatus = "exit1"
    /\ Said("Multiple files found for")
    /\ Said("No file found for")
    /\ stl_files = << >>
    /\ fs.case = StaleCase

-----------------------------------------------------------------------------
(* Properties of the launches of external tools *)

\* C22: no command line is launched twice in a run: the command lines
\* launched so far are pairwise different, whatever their exit codes were.
C22_NoCommandLaunchedTwice ==
    \A i, j \in 1..Len(invoked) : invoked[i] = invoked[j] => i = j

\* main.py's executor went through blockMesh and the five members and
\* returned failure at snappyHexMesh.
C22_Witness ==
    /\ program = "main"
    /\ Len(invoked) = 7
    /\ FailedAt(7)
    /\ \A i \in 1..6 : ZeroAt(i)
    /\ rpc = "returned"

\* C23: at most one launched process has not been joined, and it is the one
\* launched last: every command line launched before the last one has
\* terminated and its exit code has been read before the next was started.
C23_OneProcessAtATime ==
    /\ Cardinality(inFlight) <= 1
    /\ \A i \in 1..Len(invoked) :
          /\ invoked[i] \in inFlight => i = Len(invoked)
          /\ i < Len(invoked) => invoked[i] \in DOMAIN toolExit
          /\ invoked[i] \in inFlight \/ invoked[i] \in DOMAIN toolExit
    /\ \A argv \in inFlight : argv \notin DOMAIN toolExit

\* mpirun is running under main.py, after decomposePar and all before it
\* were joined.
C23_Witness ==
    /\ program = "main"
    /\ inFlight = {MpirunArgv(args.n_proc)}
    /\ DecomposeParArgv \in DOMAIN toolExit
    /\ Len(invoked) = 9

-----------------------------------------------------------------------------
(* Properties of the mapping the resolver returns *)

\* C24: in a complete mapping returned by the resolver no file is bound to
\* two different components.
C24_DistinctComponentsDistinctFiles ==
    (fpc = "returned" /\ findResult # << >>) =>
        \A c, d \in DOMAIN findResult : findResult[c] = findResult[d] => c = d

-----------------------------------------------------------------------------
(* Properties of the two executors side by side *)

\* The executor run second has returned.
BothReturned ==
    /\ program = "both executors"
    /\ pc \in {"second", "done"}
    /\ rpc = "returned"

\* C25 as stated: run on the same tools with the same exit codes, the
\* executor run second has launched the command lines the first one launched,
\* in the same order and with the same arguments, and has returned the same
\* value.
C25_ExecutorsAgree ==
    BothReturned =>
        /\ invoked = firstRun.invoked
        /\ runResult = firstRun.result

\* C25, amended: the two executors launch the same commands in the same
\* order and return the same value; the arguments are the same but for the
\* spelling of the case directory, which is the same once normalised as
\* pathlib does.
C25_ExecutorsAgreeUpToPathSpelling ==
    BothReturned =>
        /\ Len(invoked) = Len(firstRun.invoked)
        /\ \A i \in 1..Len(invoked) : Normalised(invoked[i]) = Normalised(firstRun.invoked[i])
        /\ runResult = firstRun.result

\* Constructed with './case', both executors stopped at the fourth member of
\* the fan-out, run_all having been the first to run; the command lines of
\* the two differ in the spelling of the case directory.
C25_Witness ==
    /\ BothReturned
    /\ args.case_dir = CASE_DIR
    /\ invoked # firstRun.invoked
    /\ runnerClass = "OpenFOAMRunner"
    /\ firstRun.result = "False"
    /\ Len(firstRun.invoked) = 5
    /\ Len(invoked) = 5

====
